---- MODULE Spec2Model ----
(***************************************************************************)
(* Model of the two backtest engines of src/common_dse.py:                 *)
(*   get_backtest_result       (single-leg ledger, lines 48-170)           *)
(*   get_dual_backtest_result  (dual-leg ledger, lines 173-222) with       *)
(*   init_backtest_df, make_trade and record_row (lines 264-356).          *)
(* The float columns of the data frames are modelled as exact rationals    *)
(* <<numerator, denominator>> in lowest terms with a positive denominator, *)
(* so the model follows the arithmetic of the code without its rounding.   *)
(* A data frame is the sequence of its rows processed so far; row i of the *)
(* frame (label i of the RangeIndex) is element i + 1 of the sequence.     *)
(* get_hodl_result (lines 225-232) and max_drawdown (lines 235-240) are    *)
(* pure functions; they are modelled as operators applied to inputs drawn  *)
(* from bounded sets.                                                      *)
(***************************************************************************)
EXTENDS Integers, Sequences, FiniteSets, TLC

VARIABLES engine, args, df, merged, long_df, short_df,
          pc, input_df, series, out

vars == <<engine, args, df, merged, long_df, short_df,
          pc, input_df, series, out>>

(* What the loop bodies of the engines leave alone: the position of the    *)
(* call (pc), the frame the caller passed (input_df), and the argument and *)
(* the result of the metric functions (series, out).                       *)
aux == <<pc, input_df, series, out>>

(***************************************************************************)
(* Rational arithmetic standing for the float arithmetic of the code.      *)
(***************************************************************************)
RECURSIVE GCD(_, _)
GCD(a, b) == IF b = 0 THEN a ELSE GCD(b, a % b)

IAbs(x) == IF x < 0 THEN -x ELSE x

Norm(n, d) ==
    LET g == GCD(IAbs(n), IAbs(d))
        s == IF d < 0 THEN -1 ELSE 1
    IN  <<(s * n) \div g, (s * d) \div g>>

Q(n, d) == Norm(n, d)

Zero == <<0, 1>>

One == <<1, 1>>

RAdd(a, b) ==
    LET g == GCD(a[2], b[2])
    IN  Norm(a[1] * (b[2] \div g) + b[1] * (a[2] \div g), (a[2] \div g) * b[2])

RNeg(a) == <<-a[1], a[2]>>

RSub(a, b) == RAdd(a, RNeg(b))

RMul(a, b) ==
    LET g == GCD(IAbs(a[1]), b[2])
        h == GCD(IAbs(b[1]), a[2])
    IN  Norm((a[1] \div g) * (b[1] \div h), (a[2] \div h) * (b[2] \div g))

RDiv(a, b) == RMul(a, Norm(b[2], b[1]))

RAbs(a) == <<IAbs(a[1]), a[2]>>

(* n1/d1 < n2/d2 for positive d1, d2, by comparing the integer parts and   *)
(* then the reciprocals of the fractional parts (no products are formed)   *)
RECURSIVE FracLt(_, _, _, _)
FracLt(n1, d1, n2, d2) ==
    LET q1 == n1 \div d1
        q2 == n2 \div d2
        r1 == n1 % d1
        r2 == n2 % d2
    IN  IF q1 # q2 THEN q1 < q2
        ELSE IF r2 = 0 THEN FALSE
        ELSE IF r1 = 0 THEN TRUE
        ELSE FracLt(d2, r2, d1, r1)

RLt(a, b) == FracLt(a[1], a[2], b[1], b[2])

RMax(a, b) == IF RLt(a, b) THEN b ELSE a

(***************************************************************************)
(* Inputs.  An observation is a (close, funding_rate) pair of input_df;    *)
(* a call is get_backtest_result(input_df, l, fee, maintenance_margin,     *)
(* stop_loss_margin).  MaxRows bounds the number of rows of input_df.      *)
(***************************************************************************)
MaxRows == 5

SingleObs ==
    { [close |-> Q(100, 1), funding_rate |-> Zero],
      [close |-> Q(125, 1), funding_rate |-> Zero],
      [close |-> Q(100, 1), funding_rate |-> Q(1, 50)],
      [close |-> Q(80, 1),  funding_rate |-> Q(-1, 100)],
      [close |-> Q(100, 1), funding_rate |-> Q(-3, 10)],
      [close |-> Q(100, 1), funding_rate |-> Q(-1, 2)] }

SingleArgs ==
    { [l |-> Q(5, 1), fee |-> Q(1, 1000), maintenance_margin |-> Q(1, 20),
       stop_loss_margin |-> Q(1, 16)],
      [l |-> Q(5, 1), fee |-> Q(1, 25), maintenance_margin |-> Q(1, 20),
       stop_loss_margin |-> Q(1, 10)],
      [l |-> Q(20, 1), fee |-> Q(1, 1000), maintenance_margin |-> Q(1, 20),
       stop_loss_margin |-> Q(1, 16)] }

(***************************************************************************)
(* get_backtest_result: the bootstrap row (index == 0).                    *)
(***************************************************************************)
InitRow(obs, a) ==
    [ close      |-> obs.close,
      funding_rate |-> obs.funding_rate,
      clt        |-> One,
      leverage   |-> a.l,
      entry      |-> Zero,
      pos_size   |-> Zero,
      change     |-> Zero,
      change_pnl |-> Zero,
      funding    |-> Zero,
      funding_pnl |-> Zero,
      margin     |-> Zero,
      mm         |-> RMul(RMul(One, a.l), a.maintenance_margin),
      mm_sl      |-> RMul(RMul(One, a.l), a.stop_loss_margin),
      is_liq     |-> FALSE,
      is_sl      |-> FALSE,
      fee        |-> RMul(RNeg(a.fee), a.l),
      final_pnl  |-> Zero ]

(* traded = prev_df['fee'] != 0 *)
Traded(prev) == prev.fee # Zero

NewClt_NoFee(prev) ==
    RAdd(prev.clt, IF Traded(prev) THEN prev.funding_pnl ELSE Zero)

(* new_clt = prev clt + prev fee + (prev funding_pnl if traded else 0) *)
NewClt(prev) ==
    RAdd(RAdd(prev.clt, prev.fee), IF Traded(prev) THEN prev.funding_pnl ELSE Zero)

DeadRow_ZeroLeverage(obs, a) ==
    [ close      |-> obs.close,
      funding_rate |-> obs.funding_rate,
      clt        |-> Zero,
      leverage   |-> Zero,
      entry      |-> Zero,
      pos_size   |-> Zero,
      change     |-> Zero,
      change_pnl |-> Zero,
      funding    |-> Zero,
      funding_pnl |-> Zero,
      margin     |-> Zero,
      mm         |-> Zero,
      mm_sl      |-> Zero,
      is_liq     |-> FALSE,
      is_sl      |-> FALSE,
      fee        |-> Zero,
      final_pnl  |-> RNeg(One) ]

DeadRow_KeepsFinalPnl(obs, a) ==
    [ close      |-> obs.close,
      funding_rate |-> obs.funding_rate,
      clt        |-> Zero,
      leverage   |-> a.l,
      entry      |-> Zero,
      pos_size   |-> Zero,
      change     |-> Zero,
      change_pnl |-> Zero,
      funding    |-> Zero,
      funding_pnl |-> Zero,
      margin     |-> Zero,
      mm         |-> Zero,
      mm_sl      |-> Zero,
      is_liq     |-> FALSE,
      is_sl      |-> FALSE,
      fee        |-> Zero,
      final_pnl  |-> Zero ]

(* The row written when new_clt == 0; the leverage column keeps the value  *)
(* the bootstrap gave the whole column.                                    *)
DeadRow(obs, a) ==
    [ close      |-> obs.close,
      funding_rate |-> obs.funding_rate,
      clt        |-> Zero,
      leverage   |-> a.l,
      entry      |-> Zero,
      pos_size   |-> Zero,
      change     |-> Zero,
      change_pnl |-> Zero,
      funding    |-> Zero,
      funding_pnl |-> Zero,
      margin     |-> Zero,
      mm         |-> Zero,
      mm_sl      |-> Zero,
      is_liq     |-> FALSE,
      is_sl      |-> FALSE,
      fee        |-> Zero,
      final_pnl  |-> Q(-1, 1) ]

ActiveClt_NoFloor(new_clt) == new_clt

(* df.loc[index, 'clt'] = max(new_clt, float(0)) *)
ActiveClt(new_clt) == RMax(new_clt, Zero)

ActiveEntry_AlwaysPrice(price, prev) == price

ActiveEntry_Carried(price, prev) == IF prev.entry # Zero THEN prev.entry ELSE price

(* entry: resets to the price on a trade, otherwise carried forward *)
ActiveEntry(price, prev) == IF Traded(prev) THEN price ELSE prev.entry

(* change = (price - entry) / entry if entry != 0 else 0 *)
ActiveChange(price, entry) ==
    IF entry # Zero THEN RDiv(RSub(price, entry), entry) ELSE Zero

ActiveChangePnl_Signed(change, leverage) == RMul(change, leverage)

(* change_pnl = -abs(change * leverage) *)
ActiveChangePnl(change, leverage) == RNeg(RAbs(RMul(change, leverage)))

(* funding = (clt - change / 2) * funding_rate * leverage / 2 *)
ActiveFunding(clt, change, funding_rate, leverage) ==
    RDiv(RMul(RMul(RSub(clt, RDiv(change, Q(2, 1))), funding_rate), leverage), Q(2, 1))

ActiveFundingPnl_NoReset(funding, prev) == RAdd(funding, prev.funding_pnl)

(* funding_pnl = funding if traded else funding + previous funding_pnl *)
ActiveFundingPnl(funding, prev) ==
    IF Traded(prev) THEN funding ELSE RAdd(funding, prev.funding_pnl)

(* margin = (clt + change_pnl + funding_pnl) / clt if clt != 0 else 0 *)
ActiveMargin(clt, change_pnl, funding_pnl) ==
    IF clt # Zero THEN RDiv(RAdd(RAdd(clt, change_pnl), funding_pnl), clt) ELSE Zero

Threshold_Complement(clt, leverage, frac) ==
    RMul(RMul(clt, leverage), RSub(One, frac))

(* mm = clt * leverage * maintenance_margin; mm_sl likewise *)
Threshold(clt, leverage, frac) == RMul(RMul(clt, leverage), frac)

(* is_liq = margin < mm *)
IsLiq(margin, mm) == RLt(margin, mm)

IsSl_OrEqual(margin, mm_sl) == ~RLt(mm_sl, margin)

(* is_sl = margin < mm_sl *)
IsSl(margin, mm_sl) == RLt(margin, mm_sl)

ActiveFee_Positive(fee, leverage, is_liq, is_sl) ==
    IF is_liq \/ is_sl THEN RMul(fee, leverage) ELSE Zero

ActiveFee_LiqOnly(fee, leverage, is_liq, is_sl) ==
    IF is_liq THEN RMul(RNeg(fee), leverage) ELSE Zero

(* fee = -fee * leverage if is_liq or is_sl else 0 *)
ActiveFee(fee, leverage, is_liq, is_sl) ==
    IF is_liq \/ is_sl THEN RMul(RNeg(fee), leverage) ELSE Zero

ActiveFinalPnl_NoFunding(clt, funding_pnl) == RSub(clt, One)

(* final_pnl = clt - 1 + funding_pnl *)
ActiveFinalPnl(clt, funding_pnl) == RAdd(RSub(clt, One), funding_pnl)

ActiveRow(obs, prev, a) ==
    LET price       == obs.close
        funding_rate == obs.funding_rate
        clt         == ActiveClt(NewClt(prev))
        leverage    == a.l
        entry       == ActiveEntry(price, prev)
        pos_size    == RMul(RMul(price, clt), leverage)
        change      == ActiveChange(price, entry)
        change_pnl  == ActiveChangePnl(change, leverage)
        funding     == ActiveFunding(clt, change, funding_rate, leverage)
        funding_pnl == ActiveFundingPnl(funding, prev)
        margin      == ActiveMargin(clt, change_pnl, funding_pnl)
        mm          == Threshold(clt, leverage, a.maintenance_margin)
        mm_sl       == Threshold(clt, leverage, a.stop_loss_margin)
        is_liq      == IsLiq(margin, mm)
        is_sl       == IsSl(margin, mm_sl)
    IN  [ close      |-> price,
          funding_rate |-> funding_rate,
          clt        |-> clt,
          leverage   |-> leverage,
          entry      |-> entry,
          pos_size   |-> pos_size,
          change     |-> change,
          change_pnl |-> change_pnl,
          funding    |-> funding,
          funding_pnl |-> funding_pnl,
          margin     |-> margin,
          mm         |-> mm,
          mm_sl      |-> mm_sl,
          is_liq     |-> is_liq,
          is_sl      |-> is_sl,
          fee        |-> ActiveFee(a.fee, leverage, is_liq, is_sl),
          final_pnl  |-> ActiveFinalPnl(clt, funding_pnl) ]

(***************************************************************************)
(* get_dual_backtest_result.  A merged observation is one row of           *)
(* pd.merge_asof(long_df, short_df, on='timestamp'): the long frame's      *)
(* columns carry the suffix _x, the short frame's the suffix _y.  A call   *)
(* is get_dual_backtest_result(long_df, short_df, long_funding_freq,       *)
(* short_funding_freq, leverage, init_clt, fee_percent, stop_loss_margin). *)
(* MaxDualRows bounds the number of rows of the merged frame.              *)
(***************************************************************************)
MaxDualRows == 4

DualObs ==
    { [close_x |-> Q(100, 1), close_y |-> Q(101, 1),
       funding_rate_x |-> Zero, funding_rate_y |-> Zero],
      [close_x |-> Q(50, 1), close_y |-> Q(50, 1),
       funding_rate_x |-> Q(1, 100), funding_rate_y |-> Q(2, 25)],
      [close_x |-> Q(200, 1), close_y |-> Q(199, 1),
       funding_rate_x |-> Zero, funding_rate_y |-> Q(-2, 25)],
      [close_x |-> Q(100, 1), close_y |-> Q(100, 1),
       funding_rate_x |-> Q(2, 5), funding_rate_y |-> Zero],
      [close_x |-> Q(100, 1), close_y |-> Q(99, 1),
       funding_rate_x |-> Q(1, 2), funding_rate_y |-> Zero] }

DualArgs ==
    { [long_funding_freq |-> Q(1, 1), short_funding_freq |-> Q(8, 1),
       leverage |-> Q(5, 1), init_clt |-> One, fee_percent |-> Q(1, 1000),
       stop_loss_margin |-> Q(1, 16)],
      [long_funding_freq |-> Q(8, 1), short_funding_freq |-> Q(4, 1),
       leverage |-> Q(2, 1), init_clt |-> Q(2, 1), fee_percent |-> Q(1, 100),
       stop_loss_margin |-> Q(1, 8)],
      [long_funding_freq |-> Q(1, 1), short_funding_freq |-> Q(8, 1),
       leverage |-> Q(8, 1), init_clt |-> One, fee_percent |-> Q(1, 1000),
       stop_loss_margin |-> Q(1, 8)] }

(* long_df[['datetime','close','funding_rate']] =                          *)
(*     df[['datetime_x','close_x','funding_rate_x']]                       *)
LongObs(m) == [close |-> m.close_x, funding_rate |-> m.funding_rate_x]

ShortObs_OwnClose(m, a) ==
    [close |-> m.close_y,
     funding_rate |-> RDiv(RMul(m.funding_rate_y, a.long_funding_freq),
                           a.short_funding_freq)]

(* short_df[['datetime','close','funding_rate']] =                         *)
(*     df[['datetime_y','close_x','funding_rate_y']], then                 *)
(* funding_rate = funding_rate * long_funding_freq / short_funding_freq    *)
ShortObs(m, a) ==
    [close |-> m.close_x,
     funding_rate |-> RDiv(RMul(m.funding_rate_y, a.long_funding_freq),
                           a.short_funding_freq)]

(* init_backtest_df(df, clt, leverage), one row of the frame it returns *)
InitBacktestRow(obs, clt, leverage) ==
    [ close      |-> obs.close,
      funding_rate |-> obs.funding_rate,
      is_trade   |-> FALSE,
      inj        |-> clt,
      eq         |-> clt,
      clt        |-> clt,
      leverage   |-> leverage,
      entry      |-> Zero,
      pos_size   |-> Zero,
      d          |-> 0,
      change     |-> Zero,
      change_pnl |-> Zero,
      funding    |-> Zero,
      funding_pnl |-> Zero,
      margin     |-> Zero,
      mm_sl      |-> Zero,
      is_sl      |-> FALSE,
      fee        |-> Zero,
      pnl        |-> Zero ]

Direction_AlwaysLong(side) == 1

(* d = 1 if side == 'long' else -1 *)
Direction(side) == IF side = "long" THEN 1 ELSE -1

(* new_clt = prev clt + prev change_pnl + prev funding_pnl + inj *)
TradeNewClt(prev_row, inj) ==
    RAdd(RAdd(RAdd(prev_row.clt, prev_row.change_pnl), prev_row.funding_pnl), inj)

TradeFee_Flat(new_clt, leverage, fee_percent) == RMul(leverage, fee_percent)

(* fee = new_clt * leverage * fee_percent *)
TradeFee(new_clt, leverage, fee_percent) == RMul(RMul(new_clt, leverage), fee_percent)

(* new_row['clt'] = max(new_clt - fee, 0) *)
TradeClt(new_clt, fee) == RMax(RSub(new_clt, fee), Zero)

TradePosSize_Unsigned(clt, leverage, d, price) ==
    RDiv(RMul(clt, leverage), price)

(* pos_size = clt * leverage * d / price *)
TradePosSize(clt, leverage, d, price) ==
    RDiv(RMul(RMul(clt, leverage), Q(d, 1)), price)

LegIsSl_OrEqual(margin, mm_sl) == ~RLt(mm_sl, margin)

(* is_sl = margin < mm_sl *)
LegIsSl(margin, mm_sl) == RLt(margin, mm_sl)

MakeTrade(row, prev_row, fee_percent, stop_loss_margin, side, inj) ==
    LET price   == row.close
        d       == Direction(side)
        new_clt == TradeNewClt(prev_row, inj)
        fee     == TradeFee(new_clt, row.leverage, fee_percent)
        clt     == TradeClt(new_clt, fee)
        eq      == RAdd(prev_row.eq, inj)
        margin  == clt
        mm_sl   == RMul(RMul(clt, row.leverage), stop_loss_margin)
    IN  [ close      |-> row.close,
          funding_rate |-> row.funding_rate,
          is_trade   |-> TRUE,
          inj        |-> inj,
          eq         |-> eq,
          clt        |-> clt,
          leverage   |-> row.leverage,
          entry      |-> price,
          pos_size   |-> TradePosSize(clt, prev_row.leverage, d, price),
          d          |-> d,
          change     |-> Zero,
          change_pnl |-> Zero,
          funding    |-> Zero,
          funding_pnl |-> Zero,
          margin     |-> margin,
          mm_sl      |-> mm_sl,
          is_sl      |-> LegIsSl(margin, mm_sl),
          fee        |-> fee,
          pnl        |-> RSub(margin, eq) ]

RecordRow_Reenters(row, prev_row, stop_loss_margin) ==
    LET price       == row.close
        funding_rate == row.funding_rate
        inj         == Zero
        eq          == RAdd(prev_row.eq, inj)
        clt         == prev_row.clt
        entry       == row.close
        pos_size    == prev_row.pos_size
        change      == RSub(price, entry)
        change_pnl  == RMul(change, pos_size)
        funding     == RMul(RNeg(funding_rate), RMul(pos_size, price))
        funding_pnl == RAdd(prev_row.funding_pnl, funding)
        margin      == RAdd(RAdd(clt, change_pnl), funding_pnl)
        mm_sl       == RMul(RMul(clt, row.leverage), stop_loss_margin)
    IN  [ close      |-> row.close,
          funding_rate |-> row.funding_rate,
          is_trade   |-> FALSE,
          inj        |-> inj,
          eq         |-> eq,
          clt        |-> clt,
          leverage   |-> row.leverage,
          entry      |-> entry,
          pos_size   |-> pos_size,
          d          |-> prev_row.d,
          change     |-> change,
          change_pnl |-> change_pnl,
          funding    |-> funding,
          funding_pnl |-> funding_pnl,
          margin     |-> margin,
          mm_sl      |-> mm_sl,
          is_sl      |-> LegIsSl(margin, mm_sl),
          fee        |-> Zero,
          pnl        |-> RSub(margin, eq) ]

RecordRow(row, prev_row, stop_loss_margin) ==
    LET price       == row.close
        funding_rate == row.funding_rate
        inj         == Zero
        eq          == RAdd(prev_row.eq, inj)
        clt         == prev_row.clt
        entry       == prev_row.entry
        pos_size    == prev_row.pos_size
        change      == RSub(price, entry)
        change_pnl  == RMul(change, pos_size)
        funding     == RMul(RNeg(funding_rate), RMul(pos_size, price))
        funding_pnl == RAdd(prev_row.funding_pnl, funding)
        margin      == RAdd(RAdd(clt, change_pnl), funding_pnl)
        mm_sl       == RMul(RMul(clt, row.leverage), stop_loss_margin)
    IN  [ close      |-> row.close,
          funding_rate |-> row.funding_rate,
          is_trade   |-> FALSE,
          inj        |-> inj,
          eq         |-> eq,
          clt        |-> clt,
          leverage   |-> row.leverage,
          entry      |-> entry,
          pos_size   |-> pos_size,
          d          |-> prev_row.d,
          change     |-> change,
          change_pnl |-> change_pnl,
          funding    |-> funding,
          funding_pnl |-> funding_pnl,
          margin     |-> margin,
          mm_sl      |-> mm_sl,
          is_sl      |-> LegIsSl(margin, mm_sl),
          fee        |-> Zero,
          pnl        |-> RSub(margin, eq) ]

DualBranch_LongOnly(index, prev_drift_row, prev_binance_row) ==
    IF index = 1 THEN "first_trade"
    ELSE IF prev_drift_row.is_sl THEN "is_sl"
    ELSE "record"

(* The branch the loop body takes at index > 0:                            *)
(*   first_trade = index == 1;  is_sl = prev long is_sl or prev short is_sl *)
DualBranch(index, prev_drift_row, prev_binance_row) ==
    IF index = 1 THEN "first_trade"
    ELSE IF prev_drift_row.is_sl \/ prev_binance_row.is_sl THEN "is_sl"
    ELSE "record"

AvgMargin_NoHalf(drift_margin, binance_margin) ==
    RAdd(drift_margin, binance_margin)

(* avg_margin = (drift_margin + binance_margin) / 2 *)
AvgMargin(drift_margin, binance_margin) ==
    RDiv(RAdd(drift_margin, binance_margin), Q(2, 1))

Injection_Full(avg_margin, margin) == avg_margin

(* drift_inj = avg_margin - drift_margin; binance_inj likewise *)
Injection(avg_margin, margin) == RSub(avg_margin, margin)

(* The row of a leg before the loop body writes it: the row                *)
(* init_backtest_df gave every index of the frame.                         *)
UnwrittenLong(m, a) ==
    InitBacktestRow(LongObs(m), RDiv(a.init_clt, Q(2, 1)), a.leverage)

UnwrittenShort(m, a) ==
    InitBacktestRow(ShortObs(m, a), RDiv(a.init_clt, Q(2, 1)), a.leverage)

Loc_FirstRow(frame, label) == frame[1]

(* df.loc[label]: the frame has a RangeIndex, so label i is row i, which   *)
(* is element i + 1 of the sequence.  The loop reads prev_df =             *)
(* df.loc[index - 1].                                                      *)
Loc(frame, label) == frame[label + 1]

(***************************************************************************)
(* State machine.  In Spec the caller's frame is not fixed in advance: the *)
(* loop body draws the row of each index when it reaches it.               *)
(***************************************************************************)
Init ==
    /\ engine \in {"single", "dual"}
    /\ args \in (IF engine = "single" THEN SingleArgs ELSE DualArgs)
    /\ df = <<>>
    /\ merged = <<>>
    /\ long_df = <<>>
    /\ short_df = <<>>
    /\ pc = "loop"
    /\ input_df = <<>>
    /\ series = <<>>
    /\ out = <<>>

(* loop body of get_backtest_result at index == 0 *)
SingleBootstrapStep(obs) ==
    /\ engine = "single"
    /\ Len(df) = 0
    /\ df' = <<InitRow(obs, args)>>
    /\ UNCHANGED <<engine, args, merged, long_df, short_df>>
    /\ UNCHANGED aux

(* loop body at index > 0, branch new_clt == 0 *)
SingleDeadStep(obs) ==
    /\ engine = "single"
    /\ Len(df) > 0
    /\ NewClt(Loc(df, Len(df) - 1)) = Zero
    /\ df' = Append(df, DeadRow(obs, args))
    /\ UNCHANGED <<engine, args, merged, long_df, short_df>>
    /\ UNCHANGED aux

(* loop body at index > 0, branch new_clt != 0 *)
SingleActiveStep(obs) ==
    /\ engine = "single"
    /\ Len(df) > 0
    /\ NewClt(Loc(df, Len(df) - 1)) # Zero
    /\ df' = Append(df, ActiveRow(obs, Loc(df, Len(df) - 1), args))
    /\ UNCHANGED <<engine, args, merged, long_df, short_df>>
    /\ UNCHANGED aux

(* loop body of get_dual_backtest_result at index == 0 *)
DualBootstrapStep(m) ==
    /\ engine = "dual"
    /\ Len(merged) = 0
    /\ merged' = <<m>>
    /\ long_df' = <<UnwrittenLong(m, args)>>
    /\ short_df' = <<UnwrittenShort(m, args)>>
    /\ UNCHANGED <<engine, args, df>>
    /\ UNCHANGED aux

(* loop body at index == 1: both legs trade with injection 0 *)
DualFirstTradeStep(m) ==
    /\ engine = "dual"
    /\ Len(merged) > 0
    /\ DualBranch(Len(merged), long_df[Len(merged)], short_df[Len(merged)]) = "first_trade"
    /\ merged' = Append(merged, m)
    /\ long_df' = Append(long_df,
          MakeTrade(UnwrittenLong(m, args), long_df[Len(merged)],
                    args.fee_percent, args.stop_loss_margin, "long", Zero))
    /\ short_df' = Append(short_df,
          MakeTrade(UnwrittenShort(m, args), short_df[Len(merged)],
                    args.fee_percent, args.stop_loss_margin, "short", Zero))
    /\ UNCHANGED <<engine, args, df>>
    /\ UNCHANGED aux

(* loop body at index > 1 after a stop-loss: both legs trade with the      *)
(* injections that bring their margins to the average                      *)
DualRebalanceStep(m) ==
    /\ engine = "dual"
    /\ Len(merged) > 0
    /\ DualBranch(Len(merged), long_df[Len(merged)], short_df[Len(merged)]) = "is_sl"
    /\ LET drift_margin   == long_df[Len(merged)].margin
           binance_margin == short_df[Len(merged)].margin
           avg_margin     == AvgMargin(drift_margin, binance_margin)
           drift_inj      == Injection(avg_margin, drift_margin)
           binance_inj    == Injection(avg_margin, binance_margin)
       IN  /\ merged' = Append(merged, m)
           /\ long_df' = Append(long_df,
                 MakeTrade(UnwrittenLong(m, args), long_df[Len(merged)],
                           args.fee_percent, args.stop_loss_margin, "long", drift_inj))
           /\ short_df' = Append(short_df,
                 MakeTrade(UnwrittenShort(m, args), short_df[Len(merged)],
                           args.fee_percent, args.stop_loss_margin, "short", binance_inj))
    /\ UNCHANGED <<engine, args, df>>
    /\ UNCHANGED aux

(* loop body at index > 1 otherwise: both legs record *)
DualRecordStep(m) ==
    /\ engine = "dual"
    /\ Len(merged) > 0
    /\ DualBranch(Len(merged), long_df[Len(merged)], short_df[Len(merged)]) = "record"
    /\ merged' = Append(merged, m)
    /\ long_df' = Append(long_df,
          RecordRow(UnwrittenLong(m, args), long_df[Len(merged)], args.stop_loss_margin))
    /\ short_df' = Append(short_df,
          RecordRow(UnwrittenShort(m, args), short_df[Len(merged)], args.stop_loss_margin))
    /\ UNCHANGED <<engine, args, df>>
    /\ UNCHANGED aux

(* In Spec the loop body draws the row of its index from the rows a frame *)
(* can hold; the frame grows to at most MaxRows (MaxDualRows) rows.       *)
SingleBootstrap == \E obs \in SingleObs : SingleBootstrapStep(obs)

SingleDead == Len(df) < MaxRows /\ \E obs \in SingleObs : SingleDeadStep(obs)

SingleActive == Len(df) < MaxRows /\ \E obs \in SingleObs : SingleActiveStep(obs)

DualBootstrap == \E m \in DualObs : DualBootstrapStep(m)

DualFirstTrade == Len(merged) < MaxDualRows /\ \E m \in DualObs : DualFirstTradeStep(m)

DualRebalance == Len(merged) < MaxDualRows /\ \E m \in DualObs : DualRebalanceStep(m)

DualRecord == Len(merged) < MaxDualRows /\ \E m \in DualObs : DualRecordStep(m)

Next ==
    \/ SingleBootstrap
    \/ SingleDead
    \/ SingleActive
    \/ DualBootstrap
    \/ DualFirstTrade
    \/ DualRebalance
    \/ DualRecord

Spec == Init /\ [][Next]_vars

(***************************************************************************)
(* The engines as whole calls.  In SpecRun the caller's frame input_df is  *)
(* fixed when the call starts (for the dual engine it is the frame that    *)
(* merge_asof built), the for loop hands its rows to the loop body one     *)
(* index after the other, and the call returns when the rows are used up.  *)
(***************************************************************************)
MaxInputLen == 4

(* Rows of the frames handed to a whole call: a flat row, a price move, a  *)
(* funding payment that ends in the dead branch and one that liquidates    *)
RunSingleObs ==
    { obs \in SingleObs :
        obs.funding_rate \in {Zero, Q(-3, 10), Q(-1, 2)} }

(* Rows of the merged frames handed to a whole call *)
RunDualObs ==
    { m \in DualObs : m.funding_rate_y # Q(-2, 25) }

(* The frames a call can be handed, the empty frame included *)
RunInputs(e) ==
    UNION { [1..n -> (IF e = "single" THEN RunSingleObs ELSE RunDualObs)]
            : n \in 0..MaxInputLen }

InitRun ==
    /\ engine \in {"single", "dual"}
    /\ args \in (IF engine = "single" THEN SingleArgs ELSE DualArgs)
    /\ df = <<>>
    /\ merged = <<>>
    /\ long_df = <<>>
    /\ short_df = <<>>
    /\ pc = "loop"
    /\ input_df \in RunInputs(engine)
    /\ series = <<>>
    /\ out = <<>>

Iterrows_Reversed(frame, index) == frame[Len(frame) - index]

(* for index, row in enumerate(df.iterrows()): the row handed to the loop  *)
(* body at index, with index = 0, 1, 2, ...                                *)
Iterrows(frame, index) == frame[index + 1]

(* The observation a single-leg ledger row was computed for *)
ObsOf(row) == [close |-> row.close, funding_rate |-> row.funding_rate]

(* The loop has a next row while index < len(df) *)
RunSingleHasRow == pc = "loop" /\ Len(df) < Len(input_df)

RunDualHasRow == pc = "loop" /\ Len(merged) < Len(input_df)

RunSingleBootstrap ==
    RunSingleHasRow /\ SingleBootstrapStep(Iterrows(input_df, Len(df)))

RunSingleDead ==
    RunSingleHasRow /\ SingleDeadStep(Iterrows(input_df, Len(df)))

RunSingleActive ==
    RunSingleHasRow /\ SingleActiveStep(Iterrows(input_df, Len(df)))

RunDualBootstrap ==
    RunDualHasRow /\ DualBootstrapStep(Iterrows(input_df, Len(merged)))

RunDualFirstTrade ==
    RunDualHasRow /\ DualFirstTradeStep(Iterrows(input_df, Len(merged)))

RunDualRebalance ==
    RunDualHasRow /\ DualRebalanceStep(Iterrows(input_df, Len(merged)))

RunDualRecord ==
    RunDualHasRow /\ DualRecordStep(Iterrows(input_df, Len(merged)))

(* get_backtest_result, line 170: return df.  For an empty frame the loop  *)
(* body never ran and the copy of the frame is returned as it is.          *)
SingleReturn ==
    /\ engine = "single"
    /\ pc = "loop"
    /\ Len(df) = Len(input_df)
    /\ pc' = "returned"
    /\ out' = df
    /\ UNCHANGED <<engine, args, df, merged, long_df, short_df, input_df, series>>

(* get_dual_backtest_result, lines 214-220: the combined frame *)
ResultDf(long, short) ==
    [ i \in 1..Len(long) |->
        [ close         |-> long[i].close,
          long_funding  |-> long[i].funding_rate,
          short_funding |-> short[i].funding_rate,
          long_pnl      |-> long[i].pnl,
          short_pnl     |-> short[i].pnl,
          final_pnl     |-> RAdd(long[i].pnl, short[i].pnl) ] ]

(* get_dual_backtest_result, line 222: return (result_df, long_df,         *)
(* short_df), after at least one pass of the loop body                     *)
DualReturn ==
    /\ engine = "dual"
    /\ pc = "loop"
    /\ Len(merged) = Len(input_df)
    /\ Len(input_df) > 0
    /\ pc' = "returned"
    /\ out' = <<ResultDf(long_df, short_df), long_df, short_df>>
    /\ UNCHANGED <<engine, args, df, merged, long_df, short_df, input_df, series>>

(* get_dual_backtest_result on an empty merged frame: the loop body never  *)
(* ran, the legs have no 'pnl' column and line 215 raises KeyError.        *)
DualRaise ==
    /\ engine = "dual"
    /\ pc = "loop"
    /\ Len(input_df) = 0
    /\ pc' = "raised"
    /\ UNCHANGED <<engine, args, df, merged, long_df, short_df, input_df, series, out>>

NextRun ==
    \/ RunSingleBootstrap
    \/ RunSingleDead
    \/ RunSingleActive
    \/ RunDualBootstrap
    \/ RunDualFirstTrade
    \/ RunDualRebalance
    \/ RunDualRecord
    \/ SingleReturn
    \/ DualReturn
    \/ DualRaise

SpecRun == InitRun /\ [][NextRun]_vars

(***************************************************************************)
(* The engines take any numbers as their policy arguments: the signatures  *)
(* of lines 48 and 173 and the code before the loops check nothing.        *)
(* SpecAnyPolicy runs the loops of Spec from calls whose policy may have a *)
(* leverage that is not positive or a fraction outside [0, 1).             *)
(***************************************************************************)
OutOfRangeSingleArgs ==
    { [l |-> Q(-5, 1), fee |-> Q(1, 1000), maintenance_margin |-> Q(1, 20),
       stop_loss_margin |-> Q(1, 16)],
      [l |-> Zero, fee |-> Q(1, 1000), maintenance_margin |-> Q(1, 20),
       stop_loss_margin |-> Q(1, 16)],
      [l |-> Q(5, 1), fee |-> Q(3, 2), maintenance_margin |-> Q(1, 20),
       stop_loss_margin |-> Q(1, 16)],
      [l |-> Q(5, 1), fee |-> Q(1, 1000), maintenance_margin |-> Q(1, 20),
       stop_loss_margin |-> One] }

OutOfRangeDualArgs ==
    { [long_funding_freq |-> Q(1, 1), short_funding_freq |-> Q(8, 1),
       leverage |-> Zero, init_clt |-> One, fee_percent |-> Q(1, 1000),
       stop_loss_margin |-> Q(1, 16)],
      [long_funding_freq |-> Q(1, 1), short_funding_freq |-> Q(8, 1),
       leverage |-> Q(5, 1), init_clt |-> One, fee_percent |-> One,
       stop_loss_margin |-> Q(1, 16)] }

InitAnyPolicy ==
    /\ engine \in {"single", "dual"}
    /\ args \in (IF engine = "single"
                 THEN SingleArgs \cup OutOfRangeSingleArgs
                 ELSE DualArgs \cup OutOfRangeDualArgs)
    /\ df = <<>>
    /\ merged = <<>>
    /\ long_df = <<>>
    /\ short_df = <<>>
    /\ pc = "loop"
    /\ input_df = <<>>
    /\ series = <<>>
    /\ out = <<>>

SpecAnyPolicy == InitAnyPolicy /\ [][Next]_vars

(***************************************************************************)
(* get_hodl_result (lines 225-232): the buy-and-hold baseline.             *)
(***************************************************************************)
MaxHodlRows == 3

(* Close prices of the frames handed to get_hodl_result *)
HodlCloses == {Q(90, 1), Q(100, 1), Q(110, 1)}

(* The frames handed to get_hodl_result: 1..MaxHodlRows rows in any order, *)
(* each with its own datetime and a positive close.                        *)
HodlFrames ==
    { f \in UNION { [1..n -> [datetime : 1..MaxHodlRows, close : HodlCloses]]
                    : n \in 1..MaxHodlRows } :
        \A i \in DOMAIN f, j \in DOMAIN f :
            i # j => f[i].datetime # f[j].datetime }

(* Insert row r into a frame that is ascending by datetime *)
RECURSIVE InsertByDatetime(_, _)
InsertByDatetime(r, frame) ==
    IF frame = <<>> THEN <<r>>
    ELSE IF r.datetime < Head(frame).datetime THEN <<r>> \o frame
    ELSE <<Head(frame)>> \o InsertByDatetime(r, Tail(frame))

SortByDatetime_None(frame) == frame

(* df.sort_values(by = 'datetime', ascending = True) followed by           *)
(* reset_index(drop = True): the rows ascending by datetime, relabelled    *)
(* 0, 1, 2, ...                                                            *)
RECURSIVE SortByDatetime(_)
SortByDatetime(frame) ==
    IF frame = <<>> THEN <<>>
    ELSE InsertByDatetime(Head(frame), SortByDatetime(Tail(frame)))

HodlResult_Difference(frame) ==
    LET sorted      == SortByDatetime(frame)
        first_price == sorted[1].close
    IN  [ i \in 1..Len(sorted) |->
            [ datetime |-> sorted[i].datetime,
              close    |-> sorted[i].close,
              pnl      |-> RSub(sorted[i].close, first_price) ] ]

(* first_price = df.loc[0, 'close'];                                       *)
(* df['pnl'] = (df['close'] - first_price) / first_price                   *)
HodlResult(frame) ==
    LET sorted      == SortByDatetime(frame)
        first_price == sorted[1].close
    IN  [ i \in 1..Len(sorted) |->
            [ datetime |-> sorted[i].datetime,
              close    |-> sorted[i].close,
              pnl      |-> RDiv(RSub(sorted[i].close, first_price), first_price) ] ]

(***************************************************************************)
(* max_drawdown (lines 235-240).  A float division by zero gives nan       *)
(* (0 / 0) or an infinity; these are modelled as pairs with denominator 0. *)
(***************************************************************************)
MaxSeriesLen == 3

NaN == <<0, 0>>
PosInf == <<1, 0>>
NegInf == <<-1, 0>>

(* P&L values of the series handed to max_drawdown; -1 is the total loss   *)
(* (equity 0) and -2 a loss beyond the initial capital (equity -1).        *)
DrawdownValues ==
    { Zero, Q(1, 10), Q(-1, 20), Q(1, 5), Q(-3, 10), Q(1, 20), Q(-1, 1), Q(-2, 1) }

(* The series of Scenario C *)
ScenarioCSeries ==
    << Zero, Q(1, 10), Q(-1, 20), Q(1, 5), Q(-3, 10), Q(1, 20) >>

(* The series handed to max_drawdown: every non-empty series of up to      *)
(* MaxSeriesLen values, and the series of Scenario C.                      *)
DrawdownSeries ==
    UNION { [1..n -> DrawdownValues] : n \in 1..MaxSeriesLen } \cup {ScenarioCSeries}

(* equity_curve = series + 1 *)
EquityCurve(s) == [ i \in 1..Len(s) |-> RAdd(s[i], One) ]

CumMax_Identity(curve) == curve

(* equity_curve.cummax() *)
RECURSIVE CumMax(_)
CumMax(curve) ==
    IF Len(curve) <= 1 THEN curve
    ELSE LET front == CumMax(SubSeq(curve, 1, Len(curve) - 1))
         IN  Append(front, RMax(front[Len(front)], curve[Len(curve)]))

(* Float division of two finite values *)
FloatDiv(n, d) ==
    IF d # Zero THEN RDiv(n, d)
    ELSE IF n = Zero THEN NaN
    ELSE IF RLt(n, Zero) THEN NegInf
    ELSE PosInf

(* drawdowns = (equity_curve - cumulative_max) / cumulative_max *)
Drawdowns(curve, cumulative_max) ==
    [ i \in 1..Len(curve) |->
        FloatDiv(RSub(curve[i], cumulative_max[i]), cumulative_max[i]) ]

FillNa_Keep(x) == x

(* drawdowns.fillna(0, inplace = True), one value *)
FillNa(x) == IF x = NaN THEN Zero ELSE x

(* a < b for float values: finite, infinite or nan (every comparison with  *)
(* nan is false)                                                           *)
ExtLt(a, b) ==
    IF a = NaN \/ b = NaN THEN FALSE
    ELSE IF a = b THEN FALSE
    ELSE IF a = NegInf \/ b = PosInf THEN TRUE
    ELSE IF a = PosInf \/ b = NegInf THEN FALSE
    ELSE RLt(a, b)

(* drawdowns.min() of a non-empty series *)
RECURSIVE SeriesMin(_)
SeriesMin(s) ==
    IF Len(s) = 1 THEN s[1]
    ELSE LET m == SeriesMin(Tail(s))
         IN  IF ExtLt(m, s[1]) THEN m ELSE s[1]

(* max_drawdown(series) *)
MaxDrawdown(s) ==
    LET equity_curve   == EquityCurve(s)
        cumulative_max == CumMax(equity_curve)
        drawdowns      == Drawdowns(equity_curve, cumulative_max)
    IN  SeriesMin([ i \in 1..Len(s) |-> FillNa(drawdowns[i]) ])

(***************************************************************************)
(* The metric functions as a state machine: a call with an argument drawn  *)
(* from the bounded sets above, and its return.                            *)
(***************************************************************************)
InitMetrics ==
    /\ engine \in {"hodl", "max_drawdown"}
    /\ args = <<>>
    /\ df = <<>>
    /\ merged = <<>>
    /\ long_df = <<>>
    /\ short_df = <<>>
    /\ pc = "call"
    /\ input_df \in (IF engine = "hodl" THEN HodlFrames ELSE {<<>>})
    /\ series \in (IF engine = "max_drawdown" THEN DrawdownSeries ELSE {<<>>})
    /\ out = <<>>

(* get_hodl_result(input_df) returns the frame with its pnl column *)
HodlCall ==
    /\ engine = "hodl"
    /\ pc = "call"
    /\ out' = HodlResult(input_df)
    /\ pc' = "returned"
    /\ UNCHANGED <<engine, args, df, merged, long_df, short_df, input_df, series>>

(* max_drawdown(series) returns the minimum of the drawdowns *)
MaxDrawdownCall ==
    /\ engine = "max_drawdown"
    /\ pc = "call"
    /\ out' = MaxDrawdown(series)
    /\ pc' = "returned"
    /\ UNCHANGED <<engine, args, df, merged, long_df, short_df, input_df, series>>

NextMetrics ==
    \/ HodlCall
    \/ MaxDrawdownCall

SpecMetrics == InitMetrics /\ [][NextMetrics]_vars

(***************************************************************************)
(* Properties of the ledgers.  Step t of a ledger is element t + 1 of its  *)
(* sequence.                                                               *)
(***************************************************************************)
Steps(frame) == 1..Len(frame)

RGe0(a) == ~RLt(a, Zero)

(* A risk trigger fired on row r of the single-leg ledger *)
Trigger(r) == r.is_liq \/ r.is_sl

(* C1: in both engines capital is never negative: clt >= 0 on every row of *)
(* the single-leg ledger and on every row of each leg of the dual ledger.  *)
C1_CapitalNeverNegative ==
    /\ \A i \in Steps(df) : RGe0(df[i].clt)
    /\ \A i \in Steps(long_df) : RGe0(long_df[i].clt)
    /\ \A i \in Steps(short_df) : RGe0(short_df[i].clt)

(* C1 witness: a single-leg row whose new_clt was negative and was floored *)
C1_Witness ==
    \E i \in Steps(df) :
        /\ i > 1
        /\ RLt(NewClt(df[i - 1]), Zero)
        /\ df[i].clt = Zero

(* C2: single-leg, zero capital is absorbing: once a row has clt == 0,     *)
(* every later row has clt == 0 and final_pnl == -1.                       *)
C2_ZeroCapitalAbsorbing ==
    \A i \in Steps(df) : \A j \in Steps(df) :
        (i < j /\ df[i].clt = Zero) =>
            (df[j].clt = Zero /\ df[j].final_pnl = Q(-1, 1))

(* C2 witness: capital hit zero and two further rows, with other prices    *)
(* and funding rates, were written after it                                *)
C2_Witness ==
    /\ Len(df) = 5
    /\ df[2].clt # Zero
    /\ df[3].clt = Zero
    /\ df[4].funding_rate # Zero
    /\ df[5].close # df[4].close

(* C3: single-leg, on every row is_sl implies margin < mm_sl and is_liq    *)
(* implies margin < mm.                                                    *)
C3_FlagsImplyThresholds ==
    \A i \in Steps(df) :
        /\ df[i].is_sl => RLt(df[i].margin, df[i].mm_sl)
        /\ df[i].is_liq => RLt(df[i].margin, df[i].mm)

(* C3 witness: a row stopped out but not liquidated, and a liquidated row *)
C3_Witness ==
    /\ \E i \in Steps(df) : df[i].is_sl /\ ~df[i].is_liq
    /\ \E i \in Steps(df) : df[i].is_liq

(* C4 as stated: single-leg, fee is nonzero exactly at step 0 and at the   *)
(* steps whose preceding step had a risk trigger fire.                     *)
C4_FeeAfterTrigger ==
    \A i \in Steps(df) :
        (df[i].fee # Zero) <=> (i = 1 \/ (i > 1 /\ Trigger(df[i - 1])))

(* C4 amended: single-leg, with fee * leverage nonzero, fee is nonzero     *)
(* exactly at step 0 and at the steps t > 0 on which a risk trigger fires  *)
(* (the same step, not the following one).                                 *)
C4_FeeOnTriggerStep ==
    (engine = "single" /\ RMul(args.fee, args.l) # Zero) =>
        \A i \in Steps(df) :
            (df[i].fee # Zero) <=> (i = 1 \/ (i > 1 /\ Trigger(df[i])))

(* C4 witness: a trigger row carrying the fee, followed by a row with      *)
(* neither trigger nor fee                                                 *)
C4_Witness ==
    \E i \in Steps(df) :
        /\ i > 1 /\ i < Len(df)
        /\ df[i].is_sl /\ ~df[i].is_liq /\ df[i].fee # Zero
        /\ ~Trigger(df[i + 1]) /\ df[i + 1].fee = Zero /\ df[i + 1].clt # Zero

(* Both legs of the dual ledger took a trade step at row i *)
TradeStep(i) ==
    i = 2 \/ (i > 2 /\ (long_df[i - 1].is_sl \/ short_df[i - 1].is_sl))

ScenarioA ==
    /\ engine = "single"
    /\ args = [l |-> Q(5, 1), fee |-> Q(1, 1000),
               maintenance_margin |-> Q(1, 20), stop_loss_margin |-> Q(1, 16)]
    /\ Len(df) >= 3
    /\ \A i \in 1..3 : df[i].close = Q(100, 1) /\ df[i].funding_rate = Zero

Sign(a) == IF a[1] > 0 THEN 1 ELSE IF a[1] < 0 THEN -1 ELSE 0

(* C7: Scenario D, at step 1 both legs of the dual ledger trade, the long  *)
(* leg with direction +1 and the short leg with direction -1, and their    *)
(* position sizes have opposite signs though both use the same price.      *)
C7_ScenarioD ==
    Len(long_df) >= 2 =>
        /\ long_df[2].is_trade /\ short_df[2].is_trade
        /\ long_df[2].d = 1 /\ short_df[2].d = -1
        /\ long_df[2].entry = short_df[2].entry
        /\ Sign(long_df[2].pos_size) = 1
        /\ Sign(short_df[2].pos_size) = -1

(* C7 witness: step 1 written from a merged row whose two closes differ *)
C7_Witness ==
    /\ Len(long_df) = 2
    /\ merged[2].close_x # merged[2].close_y

(* C8: dual-leg step selection: at step 1 both legs trade with injection   *)
(* 0; at every later step both legs trade if is_sl held on at least one    *)
(* leg at the previous step and both record otherwise; so the two legs     *)
(* always take the same kind of step.                                      *)
C8_StepSelection ==
    \A i \in Steps(long_df) :
        /\ long_df[i].is_trade = short_df[i].is_trade
        /\ i = 1 => ~long_df[i].is_trade
        /\ i = 2 => /\ long_df[i].is_trade
                    /\ long_df[i].inj = Zero
                    /\ short_df[i].inj = Zero
        /\ i > 2 => (long_df[i].is_trade <=>
                        (long_df[i - 1].is_sl \/ short_df[i - 1].is_sl))

(* C8 witness: the short leg alone was stopped out and both legs traded on *)
(* the next step, and elsewhere both legs recorded                         *)
C8_Witness ==
    /\ Len(long_df) = 4
    /\ ~long_df[3].is_trade /\ ~short_df[3].is_trade
    /\ short_df[3].is_sl /\ ~long_df[3].is_sl
    /\ long_df[4].is_trade /\ short_df[4].is_trade

(* Row i of the dual ledger is a stop-loss rebalance *)
Rebalance(i) ==
    i > 2 /\ i <= Len(long_df) /\ long_df[i].is_trade

(* C9: dual-leg, on every stop-loss rebalance the injections sum to zero   *)
(* and bring both legs to the mean of the two previous margins.            *)
C9_ZeroSumInjection ==
    \A i \in Steps(long_df) :
        Rebalance(i) =>
            LET ml == long_df[i - 1].margin
                ms == short_df[i - 1].margin
            IN  /\ RAdd(long_df[i].inj, short_df[i].inj) = Zero
                /\ RAdd(ml, long_df[i].inj) = RAdd(ms, short_df[i].inj)
                /\ RMul(Q(2, 1), RAdd(ml, long_df[i].inj)) = RAdd(ml, ms)

(* C9 witness: a rebalance that moved capital from one leg to the other *)
C9_Witness ==
    \E i \in Steps(long_df) :
        /\ Rebalance(i)
        /\ long_df[i].inj # Zero
        /\ RAdd(long_df[i - 1].margin, short_df[i - 1].margin) # Zero

(* C10: dual-leg inputs: on every row the short leg carries the long       *)
(* leg's close, its funding rate is the short frame's rate times           *)
(* long_funding_freq / short_funding_freq, and the long leg's rate is the  *)
(* long frame's rate unchanged.                                            *)
C10_DualInputs ==
    \A i \in Steps(merged) :
        /\ short_df[i].close = merged[i].close_x
        /\ long_df[i].close = merged[i].close_x
        /\ short_df[i].is_trade => short_df[i].entry = merged[i].close_x
        /\ RMul(short_df[i].funding_rate, args.short_funding_freq)
              = RMul(merged[i].funding_rate_y, args.long_funding_freq)
        /\ long_df[i].funding_rate = merged[i].funding_rate_x

(* C10 witness: a traded row of a run with different funding intervals     *)
(* whose short frame has its own close and a nonzero funding rate          *)
C10_Witness ==
    \E i \in Steps(merged) :
        /\ short_df[i].is_trade
        /\ merged[i].close_y # merged[i].close_x
        /\ merged[i].funding_rate_y # Zero
        /\ short_df[i].funding_rate # merged[i].funding_rate_y

(* Row i of the single-leg ledger was written by the branch new_clt == 0 *)
DeadStep(i) == i > 1 /\ NewClt(df[i - 1]) = Zero

C12_FeeSameStep ==
    \A i \in Steps(df) :
        (i > 1 /\ ~DeadStep(i)) =>
            df[i].fee = (IF Trigger(df[i])
                         THEN RNeg(RMul(args.fee, df[i].leverage))
                         ELSE Zero)

(* C12 witness: a ledger with a live row that charged the fee on its own   *)
(* trigger and a later live row without trigger and without fee.          *)
C12_Witness ==
    \E i \in Steps(df), j \in Steps(df) :
        /\ 1 < i /\ i < j
        /\ ~DeadStep(i) /\ ~DeadStep(j)
        /\ Trigger(df[i]) /\ df[i].fee = RNeg(RMul(args.fee, args.l))
        /\ ~Trigger(df[j]) /\ df[j].fee = Zero

(***************************************************************************)
(* Properties of the metric functions, stated on the states in which the   *)
(* call has returned.                                                      *)
(***************************************************************************)
HodlReturned == engine = "hodl" /\ pc = "returned"

DrawdownReturned == engine = "max_drawdown" /\ pc = "returned"

(* The row of a frame with the earliest datetime *)
Earliest(frame) ==
    CHOOSE r \in { frame[i] : i \in DOMAIN frame } :
        \A i \in DOMAIN frame : r.datetime <= frame[i].datetime

(* The frame of Scenario B: closes 100, 110, 90 at times 1, 2, 3, the rows *)
(* in any order.                                                           *)
ScenarioB ==
    /\ Len(input_df) = 3
    /\ { input_df[i] : i \in DOMAIN input_df } =
          { [datetime |-> 1, close |-> Q(100, 1)],
            [datetime |-> 2, close |-> Q(110, 1)],
            [datetime |-> 3, close |-> Q(90, 1)] }

(* C13: the hold baseline of Scenario B is pnl = [0, 0.1, -0.1]; in        *)
(* general the result holds the rows of the input ascending by time, and   *)
(* pnl_t = (close_t - close_0) / close_0 where close_0 is the close of the *)
(* earliest row, so the earliest row has pnl 0.                            *)
C13_HoldBaseline ==
    HodlReturned =>
        /\ Len(out) = Len(input_df)
        /\ { [datetime |-> out[t].datetime, close |-> out[t].close] : t \in DOMAIN out }
              = { input_df[i] : i \in DOMAIN input_df }
        /\ \A t \in DOMAIN out : t > 1 => out[t - 1].datetime < out[t].datetime
        /\ \A t \in DOMAIN out :
              out[t].pnl = RDiv(RSub(out[t].close, Earliest(input_df).close),
                                Earliest(input_df).close)
        /\ out[1].pnl = Zero
        /\ ScenarioB =>
              /\ out[1].pnl = Zero
              /\ out[2].pnl = Q(1, 10)
              /\ out[3].pnl = Q(-1, 10)

(* C13 witness: Scenario B handed over with its latest row first *)
C13_Witness ==
    /\ HodlReturned
    /\ ScenarioB
    /\ input_df[1].datetime = 3
    /\ out[3].pnl = Q(-1, 10)

(* Factors by which the closes of a frame are multiplied *)
ScaleFactors == { Q(1, 100), Q(1, 2), Q(2, 1), Q(3, 1) }

Scaled(frame, k) ==
    [ i \in DOMAIN frame |->
        [ datetime |-> frame[i].datetime, close |-> RMul(k, frame[i].close) ] ]

PnlColumn(frame) == [ i \in DOMAIN frame |-> frame[i].pnl ]

(* C14: the hold baseline is scale-invariant: multiplying every close by a *)
(* factor k > 0 leaves the pnl series unchanged.                           *)
C14_ScaleInvariant ==
    HodlReturned =>
        \A k \in ScaleFactors :
            PnlColumn(HodlResult(Scaled(input_df, k))) = PnlColumn(out)

(* C14 witness: a returned baseline with a gain and a loss in its pnl *)
C14_Witness ==
    /\ HodlReturned
    /\ \E t \in DOMAIN out : RLt(Zero, out[t].pnl)
    /\ \E t \in DOMAIN out : RLt(out[t].pnl, Zero)

(* The running maximum of the equity up to step t, as a maximum of a set *)
RunningMax(s, t) ==
    CHOOSE m \in { RAdd(s[j], One) : j \in 1..t } :
        \A j \in 1..t : ~RLt(m, RAdd(s[j], One))

(* The drawdown of step t against the running maximum *)
DrawdownAt(s, t) ==
    RDiv(RSub(RAdd(s[t], One), RunningMax(s, t)), RunningMax(s, t))

(* C15: the maximum drawdown of Scenario C, pnl = [0, 0.1, -0.05, 0.2,     *)
(* -0.3, 0.05], is (0.7 - 1.2) / 1.2 = -5/12; in general, while the        *)
(* running maximum of the equity is positive, the maximum drawdown is the  *)
(* minimum over t of (equity_t - running_max_t) / running_max_t.           *)
C15_ScenarioC ==
    DrawdownReturned =>
        /\ series = ScenarioCSeries =>
              out = RDiv(RSub(Q(7, 10), Q(12, 10)), Q(12, 10))
        /\ (\A t \in DOMAIN series : RLt(Zero, RunningMax(series, t))) =>
              /\ \E t \in DOMAIN series : out = DrawdownAt(series, t)
              /\ \A t \in DOMAIN series : ~RLt(DrawdownAt(series, t), out)

(* C15 witness: max_drawdown returned -5/12 for the series of Scenario C *)
C15_Witness ==
    /\ DrawdownReturned
    /\ series = ScenarioCSeries
    /\ out = Q(-5, 12)

(* C16: the maximum drawdown of a non-empty series is never positive, and  *)
(* for a series of length 1 it is exactly 0, also for the value -1 whose   *)
(* drawdown 0 / 0 is undefined and replaced by 0.                          *)
C16_DrawdownNonPositive ==
    DrawdownReturned =>
        /\ ~ExtLt(Zero, out)
        /\ Len(series) = 1 => out = Zero

(* C16 witness: max_drawdown returned 0 for the one-value series <<-1>> *)
C16_Witness ==
    /\ DrawdownReturned
    /\ series = << Q(-1, 1) >>
    /\ out = Zero

(***************************************************************************)
(* Properties of the engines as whole calls.                               *)
(***************************************************************************)
(* C17: a frame of zero observations handed to the engine yields an error  *)
(* surfaced to the caller; no ledger, partial or empty, is returned.       *)
C17_EmptyInputRaises ==
    Len(input_df) = 0 => pc # "returned"

(* x lies in [0, 1) *)
IsFraction(x) == RGe0(x) /\ RLt(x, One)

(* A policy the error taxonomy rejects: leverage not positive, or a fee or *)
(* margin fraction outside [0, 1)                                          *)
InvalidPolicy ==
    IF engine = "single"
    THEN \/ ~RLt(Zero, args.l)
         \/ ~IsFraction(args.fee)
         \/ ~IsFraction(args.maintenance_margin)
         \/ ~IsFraction(args.stop_loss_margin)
    ELSE \/ ~RLt(Zero, args.leverage)
         \/ ~IsFraction(args.fee_percent)
         \/ ~IsFraction(args.stop_loss_margin)

(* C18: a policy with non-positive leverage, or with a fee or margin       *)
(* fraction outside [0, 1), is rejected before the simulation starts: no   *)
(* ledger row is produced for it.                                          *)
C18_InvalidPolicyRejected ==
    InvalidPolicy => (Len(df) = 0 /\ Len(long_df) = 0 /\ Len(short_df) = 0)

(* The row the loop body computes from the previous row and an observation *)
StepState(prev, obs, a) ==
    IF NewClt(prev) = Zero THEN DeadRow(obs, a) ELSE ActiveRow(obs, prev, a)

(* The index the for loop has reached: the number of rows handed over *)
Index == IF engine = "single" THEN Len(df) ELSE Len(merged)

(* While the call has not ended it has a next step: with rows left, a      *)
(* branch of the loop body (the single-leg body is one if / else, the      *)
(* dual-leg body takes the branch DualBranch names); with no row left, the *)
(* end of the call.                                                        *)
HasNextStep ==
    IF Index < Len(input_df)
    THEN \/ engine = "single"
         \/ Len(merged) = 0
         \/ DualBranch(Len(merged), long_df[Len(merged)], short_df[Len(merged)])
               \in {"first_trade", "is_sl", "record"}
    ELSE ENABLED (SingleReturn \/ DualReturn \/ DualRaise)

(* What holds of a call at every moment: the loop has handed over the      *)
(* first rows of the frame, one ledger row each and in their order; while  *)
(* the call has not ended it has a next step; a call on a non-empty frame  *)
(* does not raise, and a returned ledger has one entry per observation.    *)
OneEntryPerObservation ==
    /\ pc = "loop" => HasNextStep
    /\ Len(input_df) > 0 => pc # "raised"
    /\ engine = "single" =>
          /\ Len(df) <= Len(input_df)
          /\ \A t \in Steps(df) : ObsOf(df[t]) = input_df[t]
          /\ pc = "returned" =>
                /\ Len(out) = Len(input_df)
                /\ \A t \in Steps(out) :
                      out[t] = (IF t = 1 THEN InitRow(input_df[1], args)
                                ELSE StepState(out[t - 1], input_df[t], args))
    /\ engine = "dual" =>
          /\ Len(merged) <= Len(input_df)
          /\ \A t \in Steps(merged) : merged[t] = input_df[t]
          /\ pc = "returned" =>
                /\ Len(out[1]) = Len(input_df)
                /\ Len(out[2]) = Len(input_df)
                /\ Len(out[3]) = Len(input_df)
                /\ \A t \in Steps(input_df) :
                      /\ ObsOf(out[2][t]) = LongObs(input_df[t])
                      /\ ObsOf(out[3][t]) = ShortObs(input_df[t], args)
                      /\ out[1][t].close = input_df[t].close_x
                      /\ out[1][t].final_pnl = RAdd(out[2][t].pnl, out[3][t].pnl)

(* A step of a call: a pass of the loop body that moves the index on by   *)
(* one, or the end of the call once the index has reached the length of   *)
(* the frame; after its end the call takes no step.  The index thus        *)
(* counts 0, 1, ..., N and the call ends after N passes.                   *)
VisitsNext ==
    /\ pc = "loop"
    /\ input_df' = input_df
    /\ \/ pc' = "loop" /\ Index' = Index + 1
       \/ pc' # "loop" /\ Index' = Index /\ Index = Len(input_df)

(* C19: for every non-empty frame of N observations the single-leg engine  *)
(* terminates after visiting each observation once in ascending index      *)
(* order, and the ledger it returns has exactly N entries, entry t being   *)
(* the state computed for observation t; the dual-leg engine likewise      *)
(* returns one combined entry and one entry per leg for each merged        *)
(* observation.                                                            *)
C19_TerminatesOneEntryEach ==
    /\ []OneEntryPerObservation
    /\ [][VisitsNext]_vars

(* C19 witness: a single-leg call returned a ledger for a frame of three   *)
(* or more observations that are not all the same                          *)
C19_Witness ==
    /\ engine = "single"
    /\ pc = "returned"
    /\ Len(input_df) >= 3
    /\ input_df[1] # input_df[2]
    /\ input_df[2] # input_df[3]
    /\ Len(out) = Len(input_df)

(* A streaming run: it keeps the previous state only and emits one state   *)
(* per observation.                                                        *)
RECURSIVE Stream(_, _, _)
Stream(prev, rest, a) ==
    IF rest = <<>> THEN <<>>
    ELSE LET cur == StepState(prev, Head(rest), a)
         IN  <<cur>> \o Stream(cur, Tail(rest), a)

StreamingRun(input, a) ==
    IF input = <<>> THEN <<>>
    ELSE <<InitRow(input[1], a)>> \o Stream(InitRow(input[1], a), Tail(input), a)

(* C20: the single-leg engine is a first-order Markov fold: the ledger it  *)
(* returns equals the states of a streaming run that keeps only the        *)
(* previous state, and for every k <= N the first k entries of the ledger  *)
(* are the ledger of the first k observations.                             *)
C20_MarkovFold ==
    (engine = "single" /\ pc = "returned") =>
        /\ out = StreamingRun(input_df, args)
        /\ \A k \in 0..Len(input_df) :
              SubSeq(out, 1, k) = StreamingRun(SubSeq(input_df, 1, k), args)

(* C20 witness: a returned single-leg ledger of three or more rows whose   *)
(* last row depends on the row before it (live, after a trigger)           *)
C20_Witness ==
    /\ engine = "single"
    /\ pc = "returned"
    /\ Len(out) >= 3
    /\ Trigger(out[Len(out) - 1])
    /\ out[Len(out)].clt # Zero
    /\ out[Len(out)].clt # out[1].clt

(***************************************************************************)
(* Further properties of the single-leg ledger.                            *)
(***************************************************************************)
(* capital_{t-1} + fee_charged_{t-1} + funding_pnl_cum_{t-1} of row i - 1 *)
TradeSum(i) == RAdd(RAdd(df[i - 1].clt, df[i - 1].fee), df[i - 1].funding_pnl)

(* C21: capital and entry price change only after a trade: on every row at *)
(* t > 0 whose previous row has fee 0, capital and entry price equal those *)
(* of the previous row; when the previous fee is not 0, capital is         *)
(* max(capital + fee + cumulative funding of the previous row, 0) and the  *)
(* entry price is the close of the row, unless that sum is exactly 0       *)
(* (dead row).                                                             *)
C21_ChangeOnlyAfterTrade ==
    \A i \in Steps(df) :
        i > 1 =>
            IF df[i - 1].fee = Zero
            THEN /\ df[i].clt = df[i - 1].clt
                 /\ df[i].entry = df[i - 1].entry
            ELSE /\ df[i].clt = RMax(TradeSum(i), Zero)
                 /\ TradeSum(i) # Zero => df[i].entry = df[i].close

(* C21 as the code has it: after a row with fee 0 the capital is carried,  *)
(* and the entry price is carried while that capital is not 0; a row with  *)
(* capital 0 and fee 0 is followed by a dead row, whose entry price is 0   *)
(* even when the row before (floored by the live branch) had one.  After a *)
(* row with a fee the capital is max(capital + fee + cumulative funding of *)
(* the previous row, 0) and the entry price is the close of the row,       *)
(* unless that sum is exactly 0 (dead row).                                *)
C21_ChangeAfterTradeOrDeath ==
    \A i \in Steps(df) :
        i > 1 =>
            IF df[i - 1].fee = Zero
            THEN /\ df[i].clt = df[i - 1].clt
                 /\ df[i - 1].clt # Zero => df[i].entry = df[i - 1].entry
                 /\ df[i - 1].clt = Zero => df[i].entry = Zero
            ELSE /\ df[i].clt = RMax(TradeSum(i), Zero)
                 /\ TradeSum(i) # Zero => df[i].entry = df[i].close

(* C21 witness: a ledger with a row that carried capital and entry price   *)
(* over a price move, and a dead row after a floored row that still had an *)
(* entry price                                                             *)
C21_Witness ==
    /\ \E i \in Steps(df) :
          /\ i > 1
          /\ df[i - 1].fee = Zero
          /\ df[i].clt # Zero
          /\ df[i].entry = df[i - 1].entry
          /\ df[i].entry # df[i].close
    /\ \E j \in Steps(df) :
          /\ j > 1
          /\ df[j - 1].fee = Zero
          /\ df[j - 1].clt = Zero
          /\ df[j - 1].entry # Zero
          /\ df[j].entry = Zero

(* Row i of the single-leg ledger was written by the live branch *)
LiveStep(i) == i > 1 /\ ~DeadStep(i)

(* C22: cumulative funding resets on the step after a trade and            *)
(* accumulates otherwise: on every live row at t > 0, funding_pnl equals   *)
(* the funding of the row if the previous fee is not 0, and the funding of *)
(* the row plus the previous funding_pnl if the previous fee is 0.         *)
C22_FundingResets ==
    \A i \in Steps(df) :
        LiveStep(i) =>
            df[i].funding_pnl =
                (IF df[i - 1].fee # Zero
                 THEN df[i].funding
                 ELSE RAdd(df[i].funding, df[i - 1].funding_pnl))

(* C22 witness: funding accumulated over a row without trade, and later    *)
(* reset on the row after a trade that had cumulative funding              *)
C22_Witness ==
    \E i \in Steps(df), j \in Steps(df) :
        /\ LiveStep(i) /\ LiveStep(j)
        /\ df[i - 1].fee = Zero
        /\ df[i - 1].funding_pnl # Zero
        /\ df[i].funding # Zero
        /\ df[j - 1].fee # Zero
        /\ df[j - 1].funding_pnl # Zero
        /\ df[j].funding_pnl = df[j].funding

(* C24: with leverage > 0 and stop_loss_margin > maintenance_margin the    *)
(* stop-loss never fires later than liquidation: on every row is_liq       *)
(* implies is_sl.                                                          *)
C24_LiqImpliesSl ==
    (/\ engine = "single"
     /\ RLt(Zero, args.l)
     /\ RLt(args.maintenance_margin, args.stop_loss_margin)) =>
        \A i \in Steps(df) : df[i].is_liq => df[i].is_sl

(* C24 witness: a ledger with a liquidated row and with a row that is      *)
(* stopped out without being liquidated                                    *)
C24_Witness ==
    /\ engine = "single"
    /\ RLt(Zero, args.l)
    /\ RLt(args.maintenance_margin, args.stop_loss_margin)
    /\ \E i \in Steps(df) : df[i].is_liq /\ df[i].is_sl
    /\ \E i \in Steps(df) : ~df[i].is_liq /\ df[i].is_sl

(* C25: final_pnl = capital - 1 + cumulative funding on every row of the   *)
(* single-leg ledger, the bootstrap row and the dead rows included.        *)
C25_FinalPnlIdentity ==
    \A i \in Steps(df) :
        df[i].final_pnl = RAdd(RSub(df[i].clt, One), df[i].funding_pnl)

(* C25 witness: a ledger with its bootstrap row, a live row with           *)
(* cumulative funding and a dead row                                       *)
C25_Witness ==
    /\ Len(df) >= 3
    /\ \E i \in Steps(df) : LiveStep(i) /\ df[i].funding_pnl # Zero
    /\ \E i \in Steps(df) : DeadStep(i)

(***************************************************************************)
(* Further properties of the dual-leg ledger.                              *)
(***************************************************************************)
(* Both legs took the record branch at row i *)
RecordStep(i) ==
    i > 1 /\ DualBranch(i - 1, long_df[i - 1], short_df[i - 1]) = "record"

(* Row i of a leg carries the position data of row i - 1 *)
CarriesPosition(leg, i) ==
    /\ leg[i].clt = leg[i - 1].clt
    /\ leg[i].d = leg[i - 1].d
    /\ leg[i].entry = leg[i - 1].entry
    /\ leg[i].pos_size = leg[i - 1].pos_size
    /\ leg[i].eq = leg[i - 1].eq
    /\ leg[i].inj = Zero
    /\ leg[i].fee = Zero
    /\ ~leg[i].is_trade

(* C23: the record step changes no position data: on every row a leg       *)
(* records, its capital, direction, entry price, position size and equity  *)
(* equal those of its previous row, its injection and fee are 0 and        *)
(* is_trade is false.                                                      *)
C23_RecordCarriesPosition ==
    \A i \in Steps(long_df) :
        RecordStep(i) =>
            /\ CarriesPosition(long_df, i)
            /\ CarriesPosition(short_df, i)

(* C23 witness: a recorded row whose price moved away from the entry price *)
(* and whose leg holds a position                                          *)
C23_Witness ==
    \E i \in Steps(long_df) :
        /\ RecordStep(i)
        /\ long_df[i].close # long_df[i].entry
        /\ long_df[i].pos_size # Zero
        /\ long_df[i].change_pnl # Zero

(* C27: the dual-leg engine conserves contributed equity: on every row     *)
(* long equity + short equity = init_clt.                                  *)
C27_EquityConserved ==
    \A i \in Steps(long_df) :
        RAdd(long_df[i].eq, short_df[i].eq) = args.init_clt

(* C27 witness: a rebalance moved equity from one leg to the other *)
C27_Witness ==
    \E i \in Steps(long_df) :
        /\ Rebalance(i)
        /\ long_df[i].inj # Zero
        /\ long_df[i].eq # short_df[i].eq

(* C28: the dual-leg engine stays delta-neutral: on every row the legs     *)
(* have the same capital and the same entry price, from t >= 1 on their    *)
(* position sizes sum to 0, hence their change_pnl sum to 0; on a recorded *)
(* row without funding (both rates 0) the combined pnl is that of the row  *)
(* before, whatever the price did.                                         *)
C28_DeltaNeutral ==
    \A i \in Steps(long_df) :
        /\ long_df[i].clt = short_df[i].clt
        /\ long_df[i].entry = short_df[i].entry
        /\ i > 1 => RAdd(long_df[i].pos_size, short_df[i].pos_size) = Zero
        /\ RAdd(long_df[i].change_pnl, short_df[i].change_pnl) = Zero
        /\ (/\ RecordStep(i)
            /\ long_df[i].funding_rate = Zero
            /\ short_df[i].funding_rate = Zero) =>
              RAdd(long_df[i].pnl, short_df[i].pnl)
                 = RAdd(long_df[i - 1].pnl, short_df[i - 1].pnl)

(* C28 witness: a recorded row without funding on which the price moved    *)
(* and the legs gained and lost the same amount, and a rebalance that      *)
(* brought legs with different margins to the same capital                 *)
C28_Witness ==
    /\ \E j \in Steps(long_df) :
          /\ RecordStep(j)
          /\ long_df[j].funding_rate = Zero
          /\ short_df[j].funding_rate = Zero
          /\ long_df[j].change_pnl # Zero
          /\ long_df[j].change_pnl = RNeg(short_df[j].change_pnl)
    /\ \E i \in Steps(long_df) :
          /\ Rebalance(i)
          /\ long_df[i - 1].margin # short_df[i - 1].margin
          /\ long_df[i].clt # Zero
          /\ long_df[i].clt = short_df[i].clt

(* Row i of the single-leg ledger was floored: the live branch wrote it    *)
(* from a negative new_clt                                                 *)
FlooredStep(i) == i > 1 /\ RLt(NewClt(df[i - 1]), Zero)

(* C26: a row of the single-leg ledger whose negative new_clt the live     *)
(* branch floored to capital 0 already has final_pnl -1, cumulative        *)
(* funding 0, margin 0, both flags false and fee 0; so on every row        *)
(* capital 0 implies final_pnl -1 and fee 0.                               *)
C26_FlooredRow ==
    \A i \in Steps(df) :
        /\ FlooredStep(i) =>
              /\ df[i].clt = Zero
              /\ df[i].final_pnl = RNeg(One)
              /\ df[i].funding_pnl = Zero
              /\ df[i].margin = Zero
              /\ ~df[i].is_liq
              /\ ~df[i].is_sl
              /\ df[i].fee = Zero
        /\ df[i].clt = Zero =>
              /\ df[i].final_pnl = RNeg(One)
              /\ df[i].fee = Zero

(* C26 witness: a floored row at a price other than the entry price before *)
(* it and with a funding rate                                              *)
C26_Witness ==
    \E i \in Steps(df) :
        /\ FlooredStep(i)
        /\ df[i].close # df[i - 1].entry
        /\ df[i].funding_rate # Zero
        /\ df[i].clt = Zero

(***************************************************************************)
(* The threshold of make_trade in binary floating point.  Line 319 forms   *)
(* mm_sl = clt * leverage * stop_loss_margin with two rounded products and *)
(* line 321 compares it with margin = clt.  When the exact product equals  *)
(* clt, the rounded one is clt or a neighbour of it, so the comparison is  *)
(* decided by the rounding: with leverage 10 and stop_loss_margin 0.1 the  *)
(* first trade of a call with init_clt 1 and fee_percent 0.001 has         *)
(* clt = 0.495 and mm_sl = 0.49500000000000005, and is_sl is True.  Only a *)
(* multiplication by a power of two is exact for every clt.  SpecFloat     *)
(* runs the dual engine with this choice at the ties of make_trade; away   *)
(* from a tie the comparison is that of the exact values.                  *)
(***************************************************************************)
RECURSIVE IsPowerOfTwo(_)
IsPowerOfTwo(n) == n = 1 \/ (n > 1 /\ n % 2 = 0 /\ IsPowerOfTwo(n \div 2))

(* Multiplying a float by q is exact: q is 2^k or 2^-k *)
ExactScaling(q) ==
    \/ q[2] = 1 /\ IsPowerOfTwo(q[1])
    \/ q[1] = 1 /\ IsPowerOfTwo(q[2])

(* Policies of the dual engine with decimal fractions that are not binary  *)
(* fractions; leverage * stop_loss_margin is 1                             *)
DecimalDualArgs ==
    { [long_funding_freq |-> Q(1, 1), short_funding_freq |-> Q(8, 1),
       leverage |-> Q(10, 1), init_clt |-> One, fee_percent |-> Q(1, 1000),
       stop_loss_margin |-> Q(1, 10)] }

(* The values margin < mm_sl of line 321 can take on the row make_trade    *)
(* wrote                                                                   *)
FloatIsSl(new_row, stop_loss_margin) ==
    IF /\ new_row.clt # Zero
       /\ new_row.margin = new_row.mm_sl
       /\ ~(ExactScaling(new_row.leverage) /\ ExactScaling(stop_loss_margin))
    THEN {FALSE, TRUE}
    ELSE {new_row.is_sl}

(* The rows make_trade can write in floating point *)
FloatMakeTrade(row, prev_row, fee_percent, stop_loss_margin, side, inj) ==
    LET new_row == MakeTrade(row, prev_row, fee_percent, stop_loss_margin, side, inj)
    IN  { [new_row EXCEPT !.is_sl = b] : b \in FloatIsSl(new_row, stop_loss_margin) }

InitFloat ==
    /\ engine = "dual"
    /\ args \in DualArgs \cup DecimalDualArgs
    /\ df = <<>>
    /\ merged = <<>>
    /\ long_df = <<>>
    /\ short_df = <<>>
    /\ pc = "loop"
    /\ input_df = <<>>
    /\ series = <<>>
    /\ out = <<>>

(* loop body at index == 1: the two legs start from the same capital and   *)
(* form the same products, so their comparisons agree                      *)
FloatFirstTradeStep(m) ==
    /\ engine = "dual"
    /\ Len(merged) > 0
    /\ DualBranch(Len(merged), long_df[Len(merged)], short_df[Len(merged)]) = "first_trade"
    /\ merged' = Append(merged, m)
    /\ \E long_row \in FloatMakeTrade(UnwrittenLong(m, args), long_df[Len(merged)],
                           args.fee_percent, args.stop_loss_margin, "long", Zero) :
       \E short_row \in FloatMakeTrade(UnwrittenShort(m, args), short_df[Len(merged)],
                           args.fee_percent, args.stop_loss_margin, "short", Zero) :
          /\ long_row.is_sl = short_row.is_sl
          /\ long_df' = Append(long_df, long_row)
          /\ short_df' = Append(short_df, short_row)
    /\ UNCHANGED <<engine, args, df>>
    /\ UNCHANGED aux

(* loop body at index > 1 after a stop-loss: each leg sums its own columns *)
(* and injection, so each comparison has its own rounding                  *)
FloatRebalanceStep(m) ==
    /\ engine = "dual"
    /\ Len(merged) > 0
    /\ DualBranch(Len(merged), long_df[Len(merged)], short_df[Len(merged)]) = "is_sl"
    /\ LET drift_margin   == long_df[Len(merged)].margin
           binance_margin == short_df[Len(merged)].margin
           avg_margin     == AvgMargin(drift_margin, binance_margin)
           drift_inj      == Injection(avg_margin, drift_margin)
           binance_inj    == Injection(avg_margin, binance_margin)
       IN  /\ merged' = Append(merged, m)
           /\ \E long_row \in FloatMakeTrade(UnwrittenLong(m, args), long_df[Len(merged)],
                           args.fee_percent, args.stop_loss_margin, "long", drift_inj) :
                 long_df' = Append(long_df, long_row)
           /\ \E short_row \in FloatMakeTrade(UnwrittenShort(m, args), short_df[Len(merged)],
                           args.fee_percent, args.stop_loss_margin, "short", binance_inj) :
                 short_df' = Append(short_df, short_row)
    /\ UNCHANGED <<engine, args, df>>
    /\ UNCHANGED aux

FloatFirstTrade == Len(merged) < MaxDualRows /\ \E m \in DualObs : FloatFirstTradeStep(m)

FloatRebalance == Len(merged) < MaxDualRows /\ \E m \in DualObs : FloatRebalanceStep(m)

NextFloat ==
    \/ DualBootstrap
    \/ FloatFirstTrade
    \/ FloatRebalance
    \/ DualRecord

SpecFloat == InitFloat /\ [][NextFloat]_vars

(* Both legs executed make_trade at row i (first trade or rebalance) *)
OpenTradeStep(i) ==
    i > 1 /\ DualBranch(i - 1, long_df[i - 1], short_df[i - 1]) # "record"

(* C29: when leverage * stop_loss_margin <= 1, a leg is never stopped out  *)
(* on the row on which it executes make_trade, so make_trade never runs on *)
(* two consecutive rows.                                                   *)
C29_NoStopOnTrade ==
    (/\ engine = "dual"
     /\ ~RLt(One, RMul(args.leverage, args.stop_loss_margin))) =>
        \A i \in Steps(long_df) :
            OpenTradeStep(i) =>
                /\ ~long_df[i].is_sl
                /\ ~short_df[i].is_sl
                /\ ~OpenTradeStep(i - 1)
                /\ i < Len(long_df) => ~OpenTradeStep(i + 1)

(* Row i of the single-leg ledger is a live row written after a trade *)
PostTradeStep(i) == LiveStep(i) /\ Traded(df[i - 1])

(* C30 as stated: on every live row at t > 0 that follows a trade the      *)
(* entry price is the close of the row, so change and change_pnl are 0,    *)
(* and a risk trigger on such a row comes with a funding payment that      *)
(* reduces the margin; change_pnl <= 0 on every row.                       *)
C30_TriggerOnlyByFunding ==
    /\ \A i \in Steps(df) :
          PostTradeStep(i) =>
              /\ df[i].entry = df[i].close
              /\ df[i].change = Zero
              /\ df[i].change_pnl = Zero
              /\ Trigger(df[i]) => RLt(df[i].funding, Zero)
    /\ \A i \in Steps(df) : ~RLt(Zero, df[i].change_pnl)

(* C30 amended: on every live row at t > 0 that follows a trade the entry  *)
(* price is the close of the row, change and change_pnl are 0, and the     *)
(* margin ratio is 1 + funding / capital; a flag raised on such a row      *)
(* comes with a negative funding payment or with its threshold             *)
(* capital * leverage * fraction above 1, and with funding 0 the flag is   *)
(* raised exactly when the threshold is above 1; change_pnl <= 0 on every  *)
(* row.                                                                    *)
C30_TriggerByFundingOrThreshold ==
    /\ \A i \in Steps(df) :
          PostTradeStep(i) =>
              /\ df[i].entry = df[i].close
              /\ df[i].change = Zero
              /\ df[i].change_pnl = Zero
              /\ df[i].clt # Zero =>
                    df[i].margin = RAdd(One, RDiv(df[i].funding, df[i].clt))
              /\ df[i].is_liq => RLt(df[i].funding, Zero) \/ RLt(One, df[i].mm)
              /\ df[i].is_sl => RLt(df[i].funding, Zero) \/ RLt(One, df[i].mm_sl)
              /\ (df[i].funding = Zero /\ df[i].clt # Zero) =>
                    /\ df[i].is_liq <=> RLt(One, df[i].mm)
                    /\ df[i].is_sl <=> RLt(One, df[i].mm_sl)
    /\ \A i \in Steps(df) : ~RLt(Zero, df[i].change_pnl)

(* C30 witness: after a trigger the price moved, the row has no funding    *)
(* payment and change 0, and the stop-loss fires again; an earlier row     *)
(* without a trade before it has a negative change_pnl                     *)
C30_Witness ==
    \E i \in Steps(df) :
        /\ i > 2
        /\ PostTradeStep(i)
        /\ Trigger(df[i - 1])
        /\ df[i].close # df[i - 1].close
        /\ df[i].funding = Zero
        /\ df[i].change_pnl = Zero
        /\ df[i].is_sl
        /\ ~df[i].is_liq

====
